---- MODULE Spec2Model ----
(***************************************************************************)
(* minivdom.js: a reactive cell (state) and a renderer (RenderDOM) that    *)
(* turns nested data into DOM nodes.  The model is a small-step            *)
(* interpreter of the two functions: the JavaScript call stack is the      *)
(* variable stack, one frame per active call of RenderDOM, of a component  *)
(* function, or of state.set.  An uncaught exception unwinds the whole     *)
(* call stack (the file has no try/catch) and leaves every global as it    *)
(* was at the throw.                                                       *)
(***************************************************************************)
EXTENDS Integers, Sequences, FiniteSets, TLC

\* ------------------------------------------------------------------ bounds
MaxOps    == 3   \* top-level calls: document.body.appendChild(RenderDOM(f)), cell.set(v)
MaxDepth  == 9   \* call-stack frames before the engine raises RangeError
MaxTagLen == 5   \* characters of a tag specifier drawn as input

\* ------------------------------------------------------- cells and values
Cells == {"a", "b"}      \* the two state cells of the page (counter, stuff)
Vals  == {0, 1}

\* ---------------------------------------------------------- descriptions
\* A node description is a record with one shape for every variant:
\*   empty (null/undefined), prim (a raw number), text (a non-empty string),
\*   comp (a component function), elem (an array [tag, {attrs}, ...children]).
Empty       == [type |-> "empty", val |-> 0, comp |-> "", tag |-> <<>>,
                attrs |-> <<>>, kids |-> <<>>]
Prim(v)     == [Empty EXCEPT !.type = "prim", !.val = v]
Text(v)     == [Empty EXCEPT !.type = "text", !.val = v]
CompRef(c)  == [Empty EXCEPT !.type = "comp", !.comp = c]
Elem(t, ks) == [Empty EXCEPT !.type = "elem", !.tag = t, !.kids = ks]
\* an element with an attribute map as second item; an attribute is
\* [k |-> key, fn |-> whether the value is a function, v |-> the value]
ElemA(t, as, ks) == [Elem(t, ks) EXCEPT !.attrs = as]
Attr(k, f, v)    == [k |-> k, fn |-> f, v |-> v]

\* !node : null, undefined and the number 0 are falsy; functions, arrays and
\* non-empty strings are truthy.
Falsy(d) == d.type = "empty" \/ (d.type = "prim" /\ d.val = 0)

\* ------------------------------------------------------- tag specifiers
\* A tag specifier is a sequence of characters.
IsDelim(ch) == ch \in {".", "#"}

RECURSIVE Run(_)
\* the longest prefix of s without '.' or '#'   ( [^\.#]+ , or <<>> for no match )
Run(s) ==
    IF s = <<>> \/ IsDelim(Head(s)) THEN <<>> ELSE <<Head(s)>> \o Run(Tail(s))

\* node[0].match(/^[^\.#]+/) : <<>> stands for null (no match)
TagName(s) == Run(s)

RECURSIVE Frags(_, _)
\* node[0].match(/\.[^\.#]+/g) with ch = "." and /\#[^\.#]+/g with ch = "#",
\* each match without its leading delimiter
Frags(s, ch) ==
    IF s = <<>> THEN <<>>
    ELSE IF Head(s) = ch /\ Run(Tail(s)) # <<>>
         THEN <<Run(Tail(s))>> \o Frags(SubSeq(s, Len(Run(Tail(s))) + 2, Len(s)), ch)
         ELSE Frags(Tail(s), ch)

\* a class match without the g flag: node[0].match(/\.[^\.#]+/) yields the
\* first match only
ClassesFirst(s) == IF Frags(s, ".") = <<>> THEN <<>> ELSE <<Frags(s, ".")[1]>>

Classes(s) == Frags(s, ".")
Ids(s)     == Frags(s, "#")

\* ------------------------------------------------------------ components
\* A component function is a straight-line body of operations on an
\* accumulator acc, followed by a return of a description built from acc.
Op(o, c, v, f) == [op |-> o, cell |-> c, val |-> v, comp |-> f]
OpRead(c)      == Op("read", c, 0, "")      \* acc = c.value
OpReadIf(c, v) == Op("readif", c, v, "")    \* if (acc === v) acc = c.value
OpWrite(c)     == Op("write", c, 0, "")     \* c.set(acc)
OpRender(f)    == Op("render", "", 0, f)    \* RenderDOM(f)
OpThrowIf(v)   == Op("throwif", "", v, "")  \* if (acc === v) throw new Error()

Comps == {"App", "Leaf", "Maybe", "Wrap", "Pre", "Writer", "Branch", "Bad"}
Roots == {"App", "Wrap", "Pre", "Writer", "Branch", "Bad"}

Body(c) ==
    CASE c = "App"    -> <<OpRead("a")>>
      [] c = "Leaf"   -> <<OpRead("a"), OpRead("a")>>
      [] c = "Maybe"  -> <<OpRead("b")>>
      [] c = "Wrap"   -> <<>>
      [] c = "Pre"    -> <<OpRender("Leaf"), OpRead("a")>>
      [] c = "Writer" -> <<OpRead("a"), OpWrite("b")>>
      [] c = "Branch" -> <<OpRead("a"), OpReadIf("b", 0)>>
      [] c = "Bad"    -> <<OpRead("b"), OpThrowIf(1), OpRead("a")>>

P(v) == Elem(<<"p">>, <<Text(v)>>)

Returned(c, acc) ==
    CASE c = "App"    -> Elem(<<"d", "#", "i", ".", "c">>,
                              <<Prim(acc), CompRef("Leaf"), CompRef("Maybe")>>)
      [] c = "Leaf"   -> P(acc)
      [] c = "Maybe"  -> IF acc = 0 THEN P(acc) ELSE Empty
      [] c = "Wrap"   -> CompRef("Leaf")
      [] c = "Pre"    -> P(acc)
      [] c = "Writer" -> ElemA(<<"b">>, <<Attr("onclick", TRUE, "set"),
                                          Attr("title", FALSE, "t")>>, <<Text(acc)>>)
      [] c = "Branch" -> P(acc)
      [] c = "Bad"    -> IF acc = 0 THEN Text(acc)
                         ELSE Elem(<<"d">>, <<Elem(<<".", "x">>, <<>>)>>)

\* ------------------------------------------------------------------ state
VARIABLES
    value,        \* cell -> the stored value                 (let value)
    subscribers,  \* cell -> [id -> component]                (let subscribers)
    _id,          \* the identifier counter                   (var _id)
    _id_stack,    \* the context stack of <<id, component>>   (var _id_stack)
    el,           \* the implicit global el of set; 0 is null
    dom,          \* the implicit global dom of set; 0 is undefined
    nodes,        \* node id -> DOM node record (every node ever created)
    body,         \* children of document.body, a sequence of node ids
    stack,        \* the call stack, a sequence of frames
    ret,          \* the value returned by the call that returned last
    crash,        \* the last uncaught exception and the stack it unwound;
                  \* history, ever: whether any call was left by one
    ops,          \* top-level renders and writes started
    ctxNode,      \* history: id -> the node stamped for it last (0: none)
    lastReads,    \* history: id -> cells read in its latest invocation
    regOrder      \* history: cell -> its ids in order of insertion

vars == <<value, subscribers, _id, _id_stack, el, dom, nodes, body, stack, ret,
          crash, ops, ctxNode, lastReads, regOrder>>

\* ------------------------------------------------------------- DOM nodes
NoUid == -1

\* document.createElement(tag), then el[k] = v for the function-valued
\* attributes, el.setAttribute(k, v) for the others, the classes and the id
NewElement(t, as, cls, eid) ==
    [kind |-> "el", tag |-> t, uid |-> NoUid, kids |-> <<>>, val |-> 0,
     props |-> SelectSeq(as, LAMBDA a : a.fn),
     attrs |-> SelectSeq(as, LAMBDA a : ~a.fn),
     cls |-> cls, eid |-> eid]
NewText(v) ==
    [kind |-> "text", tag |-> <<>>, uid |-> NoUid, kids |-> <<>>, val |-> v,
     props |-> <<>>, attrs |-> <<>>, cls |-> <<>>, eid |-> <<>>]

RECURSIVE Walk(_, _)
\* the nodes below the roots in todo, in document (pre-)order
Walk(ns, todo) ==
    IF todo = <<>> THEN <<>>
    ELSE <<Head(todo)>> \o Walk(ns, ns[Head(todo)].kids \o Tail(todo))

DocOrder == Walk(nodes, body)
InDoc(n) == \E k \in 1..Len(DocOrder) : DocOrder[k] = n

Min(S) == CHOOSE m \in S : \A k \in S : m <= k

\* document.querySelector(`[data-uid="${id}"`) : the first element in
\* document order that carries the identifier, or 0 for null
QuerySelectorIn(ns, bd, id) ==
    LET d == Walk(ns, bd)
        m == {k \in 1..Len(d) : ns[d[k]].kind = "el" /\ ns[d[k]].uid = id}
    IN IF m = {} THEN 0 ELSE d[Min(m)]

QuerySelector(id) == QuerySelectorIn(nodes, body, id)

\* old.replaceWith(new) on the children of the body
ReplaceInBody(bd, old, new) ==
    [k \in 1..Len(bd) |-> IF bd[k] = old THEN new ELSE bd[k]]

\* old.replaceWith(new) on the children of every node; a node without a
\* parent is left alone
ReplaceInNodes(ns, old, new) ==
    [n \in 1..Len(ns) |->
        [ns[n] EXCEPT !.kids = [k \in 1..Len(ns[n].kids) |->
                                   IF ns[n].kids[k] = old THEN new ELSE ns[n].kids[k]]]]

SetUid(ns, n, id) == [ns EXCEPT ![n].uid = id]

\* ------------------------------------------------------------ call stack
F0 == [fn |-> "", pc |-> "", node |-> Empty, id |-> NoUid, el |-> 0, i |-> 0,
       comp |-> "", acc |-> 0, cell |-> "", x |-> 0, entries |-> <<>>,
       handled |-> <<>>, regs |-> <<>>, via |-> "", entry |-> <<>>]

RenderFrame(d)       == [F0 EXCEPT !.fn = "RenderDOM", !.pc = "start", !.node = d]
CompFrame(c, id, by) == [F0 EXCEPT !.fn = "comp", !.i = 1, !.comp = c, !.id = id, !.via = by]
SetFrame(c, v)       == [F0 EXCEPT !.fn = "set", !.pc = "start", !.cell = c, !.x = v]
MountFrame           == [F0 EXCEPT !.fn = "mount"]

Idle == stack = <<>>
Top  == stack[Len(stack)]
Rest == SubSeq(stack, 1, Len(stack) - 1)
At(f, p) == ~Idle /\ Top.fn = f /\ Top.pc = p

RetUndef    == [k |-> "undef", d |-> Empty, n |-> 0]
RetDescr(d) == [k |-> "descr", d |-> d, n |-> 0]
RetDom(n)   == [k |-> "dom", d |-> Empty, n |-> n]

NoCrash == [type |-> "none", trace |-> <<>>, ever |-> FALSE]

\* an uncaught exception: nothing in the file catches, so every frame is left
Throw(t) ==
    /\ stack' = <<>>
    /\ crash' = [type |-> t, trace |-> stack, ever |-> TRUE]

\* the caller moves on to frame `me` and calls `callee`; a call on a full
\* stack raises RangeError
Call(me, callee) ==
    IF Len(stack) >= MaxDepth
    THEN Throw("RangeError")
    ELSE /\ stack' = Append(Rest, me) \o <<callee>>
         /\ crash' = crash

Return(r) ==
    /\ stack' = Rest
    /\ ret' = r
    /\ crash' = crash

Init ==
    /\ value = [c \in Cells |-> 0]
    /\ subscribers = [c \in Cells |-> <<>>]
    /\ _id = 0
    /\ _id_stack = <<>>
    /\ el = 0
    /\ dom = 0
    /\ nodes = <<>>
    /\ body = <<>>
    /\ stack = <<>>
    /\ ret = RetUndef
    /\ crash = NoCrash
    /\ ops = 0
    /\ ctxNode = <<>>
    /\ lastReads = <<>>
    /\ regOrder = [c \in Cells |-> <<>>]

\* ------------------------------------------------------ identifiers, stack
\* uid() : return _id++
uid == _id

\* a uid that forgets the increment: return _id
SameId == _id

\* ... the counter after the call
NextId == _id + 1

\* a current_id that reads the wrong end of the stack: _id_stack[0]
current_id_bottom == IF _id_stack = <<>> THEN <<>> ELSE _id_stack[1]

\* current_id() : the top of _id_stack, <<>> for undefined
current_id == IF _id_stack = <<>> THEN <<>> ELSE _id_stack[Len(_id_stack)]

\* a pop from the wrong end: _id_stack.shift()
ShiftContext == Tail(_id_stack)

\* _id_stack.pop()
PopContext == SubSeq(_id_stack, 1, Len(_id_stack) - 1)

\* subscribers[k] = v on a plain object
Put(f, k, v) == [j \in (DOMAIN f) \cup {k} |-> IF j = k THEN v ELSE f[j]]

\* delete subscribers[k]
Delete(f, k) == [j \in (DOMAIN f) \ {k} |-> f[j]]

\* a getter that replaces the mapping instead of adding to it:
\* subscribers = {[id]: comp}
GetterSubsReset(c) ==
    IF _id_stack # <<>>
    THEN Put(<<>>, _id_stack[Len(_id_stack)][1], _id_stack[Len(_id_stack)][2])
    ELSE subscribers[c]

\* the subscriber mapping of cell c after `get value()` ran
GetterSubs(c) ==
    LET id_comp == current_id
    IN IF id_comp # <<>>
       THEN Put(subscribers[c], id_comp[1], id_comp[2])
       ELSE subscribers[c]

\* history: the order of insertion of the keys of cell c after a read
GetterOrder(c) ==
    LET id_comp == current_id
    IN IF id_comp # <<>> /\ id_comp[1] \notin DOMAIN subscribers[c]
       THEN Append(regOrder[c], id_comp[1])
       ELSE regOrder[c]

RECURSIVE Ascending(_)
\* the elements of a finite set of integers, smallest first
Ascending(S) ==
    IF S = {} THEN <<>> ELSE <<Min(S)>> \o Ascending(S \ {Min(S)})

\* the entries of a mapping that listed its keys in order of insertion, as a
\* Map or an object with non-numeric keys would
InsertionEntries(m, order) ==
    [k \in 1..Len(order) |-> <<order[k], m[order[k]]>>]

\* the entries of a mapping listed from the greatest key down
DescendingEntries(m, order) ==
    LET ks == Ascending(DOMAIN m)
    IN [k \in 1..Len(ks) |-> <<ks[Len(ks) + 1 - k], m[ks[Len(ks) + 1 - k]]>>]

\* Object.entries(m) : the keys are integer indices, which an object lists
\* in ascending numeric order whatever the order of insertion `order`;
\* each entry is <<id, component>>
ObjectEntries(m, order) ==
    LET ks == Ascending(DOMAIN m)
    IN [k \in 1..Len(ks) |-> <<ks[k], m[ks[k]]>>]

Without(s, x) == SelectSeq(s, LAMBDA y : y # x)

\* ---------------------------------------------------- top-level operations
\* document.body.appendChild(RenderDOM(f)) for a component function f
Mount(c) ==
    /\ Idle
    /\ ops < MaxOps
    /\ ops' = ops + 1
    /\ stack' = <<MountFrame, RenderFrame(CompRef(c))>>
    /\ crash' = [NoCrash EXCEPT !.ever = crash.ever]
    /\ ret' = RetUndef
    /\ UNCHANGED <<value, subscribers, _id, _id_stack, el, dom, nodes, body,
                   ctxNode, lastReads, regOrder>>

\* ... RenderDOM(f) returned: appendChild
MountAppend ==
    /\ ~Idle /\ Top.fn = "mount"
    /\ body' = Append(body, ret.n)
    /\ Return(RetUndef)
    /\ UNCHANGED <<value, subscribers, _id, _id_stack, el, dom, nodes,
                   ops, ctxNode, lastReads, regOrder>>

\* an event handler calls cell.set(v)
ExtWrite(c, v) ==
    /\ Idle
    /\ ops < MaxOps
    /\ ops' = ops + 1
    /\ stack' = <<SetFrame(c, v)>>
    /\ crash' = [NoCrash EXCEPT !.ever = crash.ever]
    /\ ret' = RetUndef
    /\ UNCHANGED <<value, subscribers, _id, _id_stack, el, dom, nodes, body,
                   ctxNode, lastReads, regOrder>>

\* an event handler reads cell.value
ExtRead(c) ==
    /\ Idle
    /\ subscribers' = [subscribers EXCEPT ![c] = GetterSubs(c)]
    /\ regOrder' = [regOrder EXCEPT ![c] = GetterOrder(c)]
    /\ ret' = [k |-> "val", d |-> Empty, n |-> value[c]]
    /\ crash' = [NoCrash EXCEPT !.ever = crash.ever]
    /\ UNCHANGED <<value, _id, _id_stack, el, dom, nodes, body, stack,
                   ops, ctxNode, lastReads>>

\* the page removes a child of the body from the document (node.remove())
Unmount(k) ==
    /\ Idle
    /\ k \in 1..Len(body)
    /\ body' = SubSeq(body, 1, k - 1) \o SubSeq(body, k + 1, Len(body))
    /\ UNCHANGED <<value, subscribers, _id, _id_stack, el, dom, nodes, stack, ret,
                   crash, ops, ctxNode, lastReads, regOrder>>

\* ------------------------------------------------------------- RenderDOM
\* if (!node) return;
RenderFalsy ==
    /\ At("RenderDOM", "start")
    /\ Falsy(Top.node)
    /\ Return(RetUndef)
    /\ UNCHANGED <<value, subscribers, _id, _id_stack, el, dom, nodes, body,
                   ops, ctxNode, lastReads, regOrder>>

\* typeof node == "function": let id = uid(); _id_stack.push([id, node]); node()
\* (history: the frame keeps the context stack it was entered with)
RenderFunc ==
    /\ At("RenderDOM", "start")
    /\ Top.node.type = "comp"
    /\ _id' = NextId
    /\ _id_stack' = Append(_id_stack, <<uid, Top.node.comp>>)
    /\ ctxNode' = Append(ctxNode, 0)
    /\ lastReads' = Append(lastReads, {})
    /\ Call([Top EXCEPT !.pc = "invoked", !.id = uid, !.entry = _id_stack],
            CompFrame(Top.node.comp, uid, "render"))
    /\ UNCHANGED <<value, subscribers, el, dom, nodes, body, ret,
                   ops, regOrder>>

\* ... node() returned: RenderDOM(<the description>)
RenderInvoked ==
    /\ At("RenderDOM", "invoked")
    /\ Call([Top EXCEPT !.pc = "stamp"], RenderFrame(ret.d))
    /\ UNCHANGED <<value, subscribers, _id, _id_stack, el, dom, nodes, body, ret,
                   ops, ctxNode, lastReads, regOrder>>

\* whether dom.setAttribute(...) can be called on the value r that RenderDOM
\* returned: not on undefined, and a text node has no setAttribute
Stampable(r) == r.k = "dom" /\ nodes[r.n].kind = "el"

\* ... let dom = <the node>; dom.setAttribute("data-uid", id);
\*     _id_stack.pop(); return dom;
RenderStamp ==
    /\ At("RenderDOM", "stamp")
    /\ IF Stampable(ret)
       THEN /\ nodes' = SetUid(nodes, ret.n, Top.id)
            /\ _id_stack' = PopContext
            /\ ctxNode' = [ctxNode EXCEPT ![Top.id + 1] = ret.n]
            /\ Return(RetDom(ret.n))
       ELSE /\ Throw("TypeError")
            /\ UNCHANGED <<nodes, _id_stack, ctxNode, ret>>
    /\ UNCHANGED <<value, subscribers, _id, el, dom, body,
                   ops, lastReads, regOrder>>

\* Array.isArray(node): parse the tag, create the element, set id and classes
RenderArray ==
    /\ At("RenderDOM", "start")
    /\ Top.node.type = "elem"
    /\ IF TagName(Top.node.tag) = <<>>
       THEN /\ Throw("TypeError")      \* null[0]
            /\ UNCHANGED nodes
       ELSE /\ nodes' = Append(nodes,
                   NewElement(TagName(Top.node.tag), Top.node.attrs,
                              Classes(Top.node.tag),
                              IF Ids(Top.node.tag) = <<>> THEN <<>>
                              ELSE Ids(Top.node.tag)[1]))
            /\ stack' = Append(Rest, [Top EXCEPT !.pc = "children", !.i = 1,
                                                 !.el = Len(nodes) + 1])
            /\ crash' = crash
    /\ UNCHANGED <<value, subscribers, _id, _id_stack, el, dom, body, ret,
                   ops, ctxNode, lastReads, regOrder>>

\* children.forEach: let cnode = RenderDOM(child)
RenderChild ==
    /\ At("RenderDOM", "children")
    /\ Top.i <= Len(Top.node.kids)
    /\ Call([Top EXCEPT !.pc = "append"], RenderFrame(Top.node.kids[Top.i]))
    /\ UNCHANGED <<value, subscribers, _id, _id_stack, el, dom, nodes, body, ret,
                   ops, ctxNode, lastReads, regOrder>>

\* ... if (cnode) el.appendChild(cnode)
RenderAppend ==
    /\ At("RenderDOM", "append")
    /\ nodes' = IF ret.k = "dom"
                THEN [nodes EXCEPT ![Top.el].kids = Append(@, ret.n)]
                ELSE nodes
    /\ stack' = Append(Rest, [Top EXCEPT !.pc = "children", !.i = @ + 1])
    /\ UNCHANGED <<value, subscribers, _id, _id_stack, el, dom, body, ret, crash,
                   ops, ctxNode, lastReads, regOrder>>

\* return el
RenderReturn ==
    /\ At("RenderDOM", "children")
    /\ Top.i > Len(Top.node.kids)
    /\ Return(RetDom(Top.el))
    /\ UNCHANGED <<value, subscribers, _id, _id_stack, el, dom, nodes, body,
                   ops, ctxNode, lastReads, regOrder>>

\* return document.createTextNode(node)
RenderText ==
    /\ At("RenderDOM", "start")
    /\ ~Falsy(Top.node)
    /\ Top.node.type \in {"text", "prim"}
    /\ nodes' = Append(nodes, NewText(Top.node.val))
    /\ Return(RetDom(Len(nodes) + 1))
    /\ UNCHANGED <<value, subscribers, _id, _id_stack, el, dom, body,
                   ops, ctxNode, lastReads, regOrder>>

\* ---------------------------------------------------- component functions
AtOp(o) ==
    /\ ~Idle /\ Top.fn = "comp"
    /\ Top.i <= Len(Body(Top.comp))
    /\ Body(Top.comp)[Top.i].op = o

TheOp == Body(Top.comp)[Top.i]

\* history: the cells read by the invocation for identifier id
NoteRead(id, c) == [lastReads EXCEPT ![id + 1] = @ \cup {c}]

\* acc = cell.value : the getter registers current_id() and returns value
CompRead ==
    /\ AtOp("read")
    /\ subscribers' = [subscribers EXCEPT ![TheOp.cell] = GetterSubs(TheOp.cell)]
    /\ regOrder' = [regOrder EXCEPT ![TheOp.cell] = GetterOrder(TheOp.cell)]
    /\ lastReads' = NoteRead(Top.id, TheOp.cell)
    /\ stack' = Append(Rest, [Top EXCEPT !.i = @ + 1, !.acc = value[TheOp.cell]])
    /\ UNCHANGED <<value, _id, _id_stack, el, dom, nodes, body, ret, crash,
                   ops, ctxNode>>

\* if (acc === v) acc = cell.value
CompReadIf ==
    /\ AtOp("readif")
    /\ IF Top.acc = TheOp.val
       THEN /\ subscribers' = [subscribers EXCEPT ![TheOp.cell] = GetterSubs(TheOp.cell)]
            /\ regOrder' = [regOrder EXCEPT ![TheOp.cell] = GetterOrder(TheOp.cell)]
            /\ lastReads' = NoteRead(Top.id, TheOp.cell)
            /\ stack' = Append(Rest, [Top EXCEPT !.i = @ + 1, !.acc = value[TheOp.cell]])
       ELSE /\ stack' = Append(Rest, [Top EXCEPT !.i = @ + 1])
            /\ UNCHANGED <<subscribers, regOrder, lastReads>>
    /\ UNCHANGED <<value, _id, _id_stack, el, dom, nodes, body, ret, crash,
                   ops, ctxNode>>

\* cell.set(acc)
CompWrite ==
    /\ AtOp("write")
    /\ Call([Top EXCEPT !.i = @ + 1], SetFrame(TheOp.cell, Top.acc))
    /\ UNCHANGED <<value, subscribers, _id, _id_stack, el, dom, nodes, body, ret,
                   ops, ctxNode, lastReads, regOrder>>

\* RenderDOM(f), the result dropped
CompRender ==
    /\ AtOp("render")
    /\ Call([Top EXCEPT !.i = @ + 1], RenderFrame(CompRef(TheOp.comp)))
    /\ UNCHANGED <<value, subscribers, _id, _id_stack, el, dom, nodes, body, ret,
                   ops, ctxNode, lastReads, regOrder>>

\* if (acc === v) throw new Error()
CompThrowIf ==
    /\ AtOp("throwif")
    /\ IF Top.acc = TheOp.val
       THEN Throw("Error")
       ELSE /\ stack' = Append(Rest, [Top EXCEPT !.i = @ + 1])
            /\ crash' = crash
    /\ UNCHANGED <<value, subscribers, _id, _id_stack, el, dom, nodes, body, ret,
                   ops, ctxNode, lastReads, regOrder>>

\* return <the description>
CompReturn ==
    /\ ~Idle /\ Top.fn = "comp"
    /\ Top.i > Len(Body(Top.comp))
    /\ Return(RetDescr(Returned(Top.comp, Top.acc)))
    /\ UNCHANGED <<value, subscribers, _id, _id_stack, el, dom, nodes, body,
                   ops, ctxNode, lastReads, regOrder>>

\* -------------------------------------------------------------- state.set
TheEntry == Top.entries[Top.i]

\* history: what the loop did with an entry; old is the node that the call
\* located for it, new the node built for it
Handled(id, found, did, old, new) ==
    [id |-> id, found |-> found, did |-> did, old |-> old, new |-> new]

\* value = x; for (const [id, node] of Object.entries(subscribers))
SetStart ==
    /\ At("set", "start")
    /\ value' = [value EXCEPT ![Top.cell] = Top.x]
    /\ stack' = Append(Rest, [Top EXCEPT !.pc = "loop", !.i = 1,
                                         !.entries = ObjectEntries(subscribers[Top.cell],
                                                                  regOrder[Top.cell]),
                                         !.regs = regOrder[Top.cell]])
    /\ UNCHANGED <<subscribers, _id, _id_stack, el, dom, nodes, body, ret, crash,
                   ops, ctxNode, lastReads, regOrder>>

\* el = document.querySelector(...); if (el) { ... node() : the call
\* (history: the frame keeps the node that this call located)
SetLocated ==
    /\ At("set", "loop")
    /\ Top.i <= Len(Top.entries)
    /\ QuerySelector(TheEntry[1]) # 0
    /\ el' = QuerySelector(TheEntry[1])
    /\ lastReads' = [lastReads EXCEPT ![TheEntry[1] + 1] = {}]
    /\ Call([Top EXCEPT !.pc = "invoked", !.el = QuerySelector(TheEntry[1])],
            CompFrame(TheEntry[2], TheEntry[1], "set"))
    /\ UNCHANGED <<value, subscribers, _id, _id_stack, dom, nodes, body, ret,
                   ops, ctxNode, regOrder>>

\* el = document.querySelector(...); ... else { delete subscribers[id] }
SetPrune ==
    /\ At("set", "loop")
    /\ Top.i <= Len(Top.entries)
    /\ QuerySelector(TheEntry[1]) = 0
    /\ el' = 0
    /\ subscribers' = [subscribers EXCEPT ![Top.cell] = Delete(@, TheEntry[1])]
    /\ regOrder' = [regOrder EXCEPT ![Top.cell] = Without(@, TheEntry[1])]
    /\ stack' = Append(Rest, [Top EXCEPT !.i = @ + 1,
                   !.handled = Append(@, Handled(TheEntry[1], FALSE, "pruned", 0, 0))])
    /\ UNCHANGED <<value, _id, _id_stack, dom, nodes, body, ret, crash,
                   ops, ctxNode, lastReads>>

\* ... node() returned: dom = RenderDOM(<the description>) : the call
SetInvoked ==
    /\ At("set", "invoked")
    /\ Call([Top EXCEPT !.pc = "replace"], RenderFrame(ret.d))
    /\ UNCHANGED <<value, subscribers, _id, _id_stack, el, dom, nodes, body, ret,
                   ops, ctxNode, lastReads, regOrder>>

\* ... dom = <the node>; dom.setAttribute("data-uid", id); el.replaceWith(dom)
SetReplace ==
    /\ At("set", "replace")
    /\ dom' = IF ret.k = "dom" THEN ret.n ELSE 0
    /\ IF ~Stampable(ret)
       THEN /\ Throw("TypeError")          \* dom.setAttribute is not callable
            /\ UNCHANGED <<nodes, body, ctxNode>>
       ELSE IF el = 0
       THEN /\ nodes' = SetUid(nodes, ret.n, TheEntry[1])
            /\ Throw("TypeError")          \* null.replaceWith
            /\ UNCHANGED <<body, ctxNode>>
       ELSE /\ nodes' = ReplaceInNodes(SetUid(nodes, ret.n, TheEntry[1]), el, ret.n)
            /\ body' = ReplaceInBody(body, el, ret.n)
            /\ ctxNode' = [ctxNode EXCEPT ![TheEntry[1] + 1] = ret.n]
            /\ stack' = Append(Rest, [Top EXCEPT !.pc = "loop", !.i = @ + 1,
                   !.handled = Append(@, Handled(TheEntry[1], TRUE, "rendered", Top.el, ret.n))])
            /\ crash' = crash
    /\ UNCHANGED <<value, subscribers, _id, _id_stack, el, ret,
                   ops, lastReads, regOrder>>

\* the loop is over: set returns
SetReturn ==
    /\ At("set", "loop")
    /\ Top.i > Len(Top.entries)
    /\ Return(RetUndef)
    /\ UNCHANGED <<value, subscribers, _id, _id_stack, el, dom, nodes, body,
                   ops, ctxNode, lastReads, regOrder>>

\* ------------------------------------------------------------------- spec
Next ==
    \/ \E c \in Roots : Mount(c)
    \/ MountAppend
    \/ \E c \in Cells, v \in Vals : ExtWrite(c, v)
    \/ \E c \in Cells : ExtRead(c)
    \/ \E k \in 1..MaxOps : Unmount(k)
    \/ RenderFalsy
    \/ RenderFunc
    \/ RenderInvoked
    \/ RenderStamp
    \/ RenderArray
    \/ RenderChild
    \/ RenderAppend
    \/ RenderReturn
    \/ RenderText
    \/ CompRead
    \/ CompReadIf
    \/ CompWrite
    \/ CompRender
    \/ CompThrowIf
    \/ CompReturn
    \/ SetStart
    \/ SetLocated
    \/ SetPrune
    \/ SetInvoked
    \/ SetReplace
    \/ SetReturn

Spec == Init /\ [][Next]_vars

\* ------------------------------------------------- RenderDOM of one element
\* The parse of a tag specifier, on its own: RenderDOM([s]) is called from
\* the top level for a specifier s drawn from every string of at most
\* MaxTagLen characters over two letters and the two delimiters.
TagChars == {"t", "x", ".", "#"}
TagSpecs == UNION {[1..n -> TagChars] : n \in 0..MaxTagLen}

InitTag ==
    /\ value = [c \in Cells |-> 0]
    /\ subscribers = [c \in Cells |-> <<>>]
    /\ _id = 0
    /\ _id_stack = <<>>
    /\ el = 0
    /\ dom = 0
    /\ nodes = <<>>
    /\ body = <<>>
    /\ \E s \in TagSpecs : stack = <<RenderFrame(Elem(s, <<>>))>>
    /\ ret = RetUndef
    /\ crash = NoCrash
    /\ ops = 0
    /\ ctxNode = <<>>
    /\ lastReads = <<>>
    /\ regOrder = [c \in Cells |-> <<>>]

NextTag ==
    \/ RenderArray
    \/ RenderReturn

SpecTag == InitTag /\ [][NextTag]_vars

\* ---------------------------------------------------------------- claims
IdsOf(entries) == [k \in 1..Len(entries) |-> entries[k][1]]
Contexts       == 0..(_id - 1)
NodeOf(id)     == ctxNode[id + 1]
SetFramesOf(s) == {k \in 1..Len(s) : s[k].fn = "set"}

\* C1: rendering a component is exception-safe with respect to the context
\* stack: whenever no render is in progress the context stack is empty.
C1_ContextStackRestored == Idle => _id_stack = <<>>

\* Every entry of the snapshot was handled once, in the snapshot's order, a
\* located one re-rendered and an unlocated one pruned.
HandledAll(f) ==
    /\ [k \in 1..Len(f.handled) |-> f.handled[k].id] = IdsOf(f.entries)
    /\ \A k \in 1..Len(f.handled) :
          f.handled[k].did = IF f.handled[k].found THEN "rendered" ELSE "pruned"

\* C2: a write handles every subscriber entry present when it starts exactly
\* once, whether the write call ends by returning or by an exception.
C2_EveryEntryHandledOnce ==
    /\ (At("set", "loop") /\ Top.i > Len(Top.entries)) => HandledAll(Top)
    /\ \A k \in SetFramesOf(crash.trace) : HandledAll(crash.trace[k])

\* C3: while a component function runs because a write re-invokes it, the
\* render context of that subscriber is on top of the context stack.
C3_ReinvokedUnderOwnContext ==
    (~Idle /\ Top.fn = "comp" /\ Top.via = "set")
        => current_id = <<Top.id, Top.comp>>

\* C4: every context that RenderDOM materialized and whose output node is in
\* the document is found by a lookup of its own identifier.
C4_ContextLocatable ==
    Idle => \A id \in Contexts :
                (NodeOf(id) # 0 /\ InDoc(NodeOf(id))) => QuerySelector(id) = NodeOf(id)

\* C5: outside of any call, a cell's mapping holds an entry for a locatable
\* context only if that context read the cell in its most recent invocation.
C5_EntriesOnlyForLastReaders ==
    Idle => \A c \in Cells : \A id \in DOMAIN subscribers[c] :
                QuerySelector(id) # 0 => c \in lastReads[id + 1]

QuerySelectorNext(id) == QuerySelectorIn(nodes', body', id)

\* m lies strictly below n in the tree
StrictlyInside(m, n) ==
    m # n /\ \E k \in 1..Len(Walk(nodes, <<n>>)) : Walk(nodes, <<n>>)[k] = m

\* the identifiers subscribed to a cell that a write in progress is writing
WrittenIds ==
    UNION {DOMAIN subscribers[stack[k].cell] : k \in SetFramesOf(stack)}

\* context p is materialized, its node is in the document and carries p
Live(p) ==
    /\ NodeOf(p) # 0
    /\ QuerySelector(p) = NodeOf(p)

\* neither p nor a component around p's node is subscribed to a written cell
Shielded(p) ==
    /\ p \notin WrittenIds
    /\ \A m \in 1..Len(nodes) :
          StrictlyInside(NodeOf(p), m) => nodes[m].uid \notin WrittenIds

\* the step invokes the component function of context p
Invokes(p) ==
    /\ Len(stack') > Len(stack)
    /\ stack'[Len(stack')].fn = "comp"
    /\ stack'[Len(stack')].id = p

\* the step is a read of cell c (the getter of c runs)
ReadStep(c) ==
    \/ AtOp("read") /\ TheOp.cell = c
    \/ AtOp("readif") /\ TheOp.cell = c /\ Top.acc = TheOp.val
    \/ Idle /\ ret'.k = "val" /\ subscribers' # subscribers
                /\ subscribers'[c] # subscribers[c]

C8_OldNodeReplaced ==
    (At("set", "loop") /\ Top.handled # <<>>) =>
        LET h == Top.handled[Len(Top.handled)] IN
        h.did = "rendered" =>
            /\ ~InDoc(h.old)
            /\ InDoc(h.new)
            /\ QuerySelector(h.id) = h.new

\* C9: every write returns, its cascade complete: no call of set is ever
\* left by an exception.
C9_WriteRunsToCompletion == SetFramesOf(crash.trace) = {}

\* C10: a read of a cell under an active context leaves exactly the entry
\* <top id -> top component> in the cell's mapping and every other entry, of
\* this and of the other cells, as it was; a read that finds that entry
\* already there changes nothing.
C10_ReadRegistersTopOnce ==
    [][ \A c \in Cells :
          (ReadStep(c) /\ _id_stack # <<>>) =>
              LET t == _id_stack[Len(_id_stack)] IN
              /\ DOMAIN subscribers'[c] = (DOMAIN subscribers[c]) \cup {t[1]}
              /\ subscribers'[c][t[1]] = t[2]
              /\ \A j \in DOMAIN subscribers[c] :
                    j # t[1] => subscribers'[c][j] = subscribers[c][j]
              /\ \A o \in Cells \ {c} : subscribers'[o] = subscribers[o]
              /\ (t[1] \in DOMAIN subscribers[c] /\ subscribers[c][t[1]] = t[2])
                    => subscribers' = subscribers
      ]_vars

\* C10 witness: a component has read the same cell twice in one invocation
\* under its own context, next to an entry of another context.
C10_Witness ==
    /\ ~Idle /\ Top.fn = "comp" /\ Top.comp = "Leaf" /\ Top.via = "render"
    /\ Top.i = 3
    /\ current_id = <<Top.id, "Leaf">>
    /\ subscribers["a"][Top.id] = "Leaf"
    /\ Cardinality(DOMAIN subscribers["a"]) >= 2

\* C11: a read of a cell made while no call is in progress (from an event
\* handler, after every render has returned or failed) returns the cell's
\* value and leaves every subscriber mapping and the context stack as they
\* were.  A step from an idle state to an idle state is such a read or the
\* removal of a node.
C11_IdleReadChangesNothing ==
    [][ (Idle /\ Idle') =>
            /\ subscribers' = subscribers
            /\ _id_stack' = _id_stack
            /\ ret' # ret => \E c \in Cells : ret'.n = value[c]
      ]_vars

\* C12: every primitive renders to a text node that holds it: when RenderDOM
\* has returned for a child that is a number or a string, falsy ones such as
\* 0 included, the value returned is a text node with that value.
C12_PrimitivesRenderAsText ==
    (At("RenderDOM", "append") /\ Top.node.kids[Top.i].type \in {"prim", "text"}) =>
        /\ ret.k = "dom"
        /\ nodes[ret.n].kind = "text"
        /\ nodes[ret.n].val = Top.node.kids[Top.i].val

\* The grammar of a tag specifier, read off the string by positions: a name,
\* then fragments, each a delimiter followed by a non-empty token.
HasName(s)    == s # <<>> /\ ~IsDelim(s[1])
WellFormed(s) ==
    /\ HasName(s)
    /\ ~IsDelim(s[Len(s)])
    /\ \A k \in 1..(Len(s) - 1) : ~(IsDelim(s[k]) /\ IsDelim(s[k + 1]))
\* the first delimiter after position k, or the end of the string
NextDelim(s, k) == Min({j \in (k + 1)..Len(s) : IsDelim(s[j])} \cup {Len(s) + 1})
TokenAt(s, k)   == SubSeq(s, k + 1, NextDelim(s, k) - 1)
DelimPos(s, ch) == {k \in 1..Len(s) : s[k] = ch}
RefName(s)      == TokenAt(s, 0)
RefClasses(s)   == {TokenAt(s, k) : k \in DelimPos(s, ".")}
RefId(s)        == IF DelimPos(s, "#") = {} THEN <<>>
                   ELSE TokenAt(s, Min(DelimPos(s, "#")))

\* C13: RenderDOM creates an element only for a specifier that starts with a
\* tag name, and for a name followed by #id and .class fragments the element
\* has the bare name as tag, the token of the first id fragment as id and
\* the tokens of all class fragments as classes, wherever in the specifier
\* they stand; a specifier without a leading name ends the call of RenderDOM
\* by an uncaught TypeError.
C13_TagSpecifierParsed ==
    /\ At("RenderDOM", "children") =>
          LET s == Top.node.tag
              n == nodes[Top.el]
          IN /\ HasName(s)
             /\ WellFormed(s) =>
                   /\ n.tag = RefName(s)
                   /\ n.eid = RefId(s)
                   /\ {n.cls[k] : k \in 1..Len(n.cls)} = RefClasses(s)
    /\ crash.type # "none" =>
          /\ crash.type = "TypeError"
          /\ Idle
          /\ ~HasName(crash.trace[Len(crash.trace)].node.tag)
    /\ (Idle /\ crash.type = "none") => (ret.k = "dom" /\ HasName(nodes[ret.n].tag))

\* C13 witness: an element was created for a specifier with a class fragment
\* before an id fragment, and one for a specifier with two id fragments of
\* which the first gave the id.
C13_Witness ==
    /\ At("RenderDOM", "children")
    /\ WellFormed(Top.node.tag)
    /\ Cardinality(DelimPos(Top.node.tag, "#")) = 2
    /\ nodes[Top.el].eid = <<"x">>
    /\ nodes[Top.el].tag = <<"t">>
    /\ Ids(Top.node.tag) = <<<<"x">>, <<"t">>>>

\* C14: on the normal path RenderDOM keeps a strict stack discipline: while a
\* component that RenderDOM invoked is being rendered, the context stack is
\* the stack the render was entered with, then the component's own context,
\* then the contexts of the renders nested in it; the component's context is
\* on top while its function is the running call; and a render that returns
\* leaves the context stack as it was on entry.
C14_StackDiscipline ==
    [][ /\ \A k \in 1..Len(stack) :
              LET f == stack[k] IN
              (f.fn = "RenderDOM" /\ f.pc \in {"invoked", "stamp"}) =>
                  /\ Len(_id_stack) > Len(f.entry)
                  /\ SubSeq(_id_stack, 1, Len(f.entry)) = f.entry
                  /\ _id_stack[Len(f.entry) + 1] = <<f.id, f.node.comp>>
        /\ (~Idle /\ Top.fn = "comp" /\ Top.via = "render") =>
              _id_stack[Len(_id_stack)] = <<Top.id, Top.comp>>
        /\ (At("RenderDOM", "stamp") /\ Stampable(ret)) => _id_stack' = Top.entry
      ]_vars

\* C14 witness: the render of App, entered inside the render of nothing else,
\* is about to return after the renders of its two child components have
\* pushed and popped their contexts above App's.
C14_Witness ==
    /\ At("RenderDOM", "stamp") /\ Stampable(ret)
    /\ Top.node.comp = "App"
    /\ _id >= Top.id + 3
    /\ _id_stack = Append(Top.entry, <<Top.id, "App">>)

\* C15: every caller of RenderDOM tolerates a result of nothing: neither the
\* render of a component nor a write that re-invokes a subscriber ends by an
\* exception at the point where it holds the undefined that RenderDOM
\* returned for a description of nothing.
C15_NothingTolerated ==
    crash.type # "none" =>
        LET f == crash.trace[Len(crash.trace)] IN
        ~(f.pc \in {"stamp", "replace"} /\ ret.k = "undef")

\* The value a component's function computes from the current cell values
\* (its body run without effects), the tree a fresh render of a description
\* would build, and the tree that stands at a node.
RECURSIVE AccAfter(_, _, _)
AccAfter(c, i, acc) ==
    IF i > Len(Body(c)) THEN acc
    ELSE LET o == Body(c)[i] IN
         AccAfter(c, i + 1,
                  IF o.op = "read" \/ (o.op = "readif" /\ acc = o.val)
                  THEN value[o.cell] ELSE acc)

NoTree == [kind |-> "none", tag |-> <<>>, val |-> 0, kids |-> <<>>]

RECURSIVE Fresh(_)
Fresh(d) ==
    IF Falsy(d) THEN NoTree
    ELSE IF d.type = "comp" THEN Fresh(Returned(d.comp, AccAfter(d.comp, 1, 0)))
    ELSE IF d.type = "elem"
         THEN [kind |-> "el", tag |-> TagName(d.tag), val |-> 0,
               kids |-> SelectSeq([k \in 1..Len(d.kids) |-> Fresh(d.kids[k])],
                                  LAMBDA x : x # NoTree)]
    ELSE [kind |-> "text", tag |-> <<>>, val |-> d.val, kids |-> <<>>]

RECURSIVE TreeAt(_)
TreeAt(n) ==
    [kind |-> nodes[n].kind, tag |-> nodes[n].tag, val |-> nodes[n].val,
     kids |-> [k \in 1..Len(nodes[n].kids) |-> TreeAt(nodes[n].kids[k])]]

\* C16: after any sequence of renders and of writes made outside a render,
\* none of which was left by an exception, the document shows the current cell values: the
\* tree at the node of every subscribed component is the tree that a fresh
\* render of that component would build.
C16_ViewConsistent ==
    (Idle /\ ~crash.ever) =>
        \A c \in Cells : \A id \in DOMAIN subscribers[c] :
            QuerySelector(id) # 0 =>
                TreeAt(QuerySelector(id)) = Fresh(CompRef(subscribers[c][id]))

C18_ReentrantWritesIndependent ==
    /\ At("set", "replace") => el = Top.el
    /\ crash.type # "none" =>
          LET f == crash.trace[Len(crash.trace)] IN
          ~(f.fn = "set" /\ f.pc = "replace" /\ Stampable(ret))

\* the nodes in the document that carry identifier id
Carriers(id) == LET d == DocOrder IN {k \in 1..Len(d) : nodes[d[k]].uid = id}

\* C19: at most one node in the document carries a given render identifier.
\* Every identifier on a node, on the context stack or in a subscriber
\* mapping was handed out by the counter, which is past it, so no later
\* context gets it again; the contexts of the renders in progress have
\* distinct identifiers; and of the old and the new node of a re-render,
\* which carry the same identifier, at most one is in the document.
C19_IdentifierUnique ==
    /\ LET d == DocOrder IN
       \A i, j \in 1..Len(d) :
           (nodes[d[i]].uid # NoUid /\ nodes[d[i]].uid = nodes[d[j]].uid) => i = j
    /\ \A n \in 1..Len(nodes) : nodes[n].uid < _id
    /\ \A k \in 1..Len(_id_stack) :
          /\ _id_stack[k][1] \in Contexts
          /\ \A j \in 1..Len(_id_stack) : _id_stack[j][1] = _id_stack[k][1] => j = k
    /\ \A c \in Cells : DOMAIN subscribers[c] \subseteq Contexts
    /\ \A k \in SetFramesOf(stack) : \A j \in 1..Len(stack[k].handled) :
          LET h == stack[k].handled[j] IN
          (h.did = "rendered" /\ nodes[h.old].uid = nodes[h.new].uid)
              => ~(InDoc(h.old) /\ InDoc(h.new))

\* C19 witness: a write has re-rendered a subscriber; the old and the new
\* node both carry its identifier, the new one is in the document next to
\* the nodes of other contexts, and the old one is not.
C19_Witness ==
    /\ At("set", "loop") /\ Top.handled # <<>>
    /\ LET h == Top.handled[Len(Top.handled)] IN
       /\ h.did = "rendered"
       /\ nodes[h.old].uid = h.id /\ nodes[h.new].uid = h.id
       /\ InDoc(h.new) /\ ~InDoc(h.old)
       /\ Carriers(h.id) # {}
       /\ \E p \in Contexts : p # h.id /\ Carriers(p) # {}
====
